---- MODULE Spec2Model ----
(***************************************************************************)
(* Model of the retry-wrapped OpenAQ client of the air quality pipeline:   *)
(*   utils/retry.py                      retry_with_backoff                *)
(*   adapters/openaq/openaq_repository.py  _handle_response, get_countries,*)
(*                                       get_locations,                    *)
(*                                       get_latest_for_location           *)
(*   domain/exceptions.py                the domain exception classes      *)
(* One wrapped call is in flight at a time.  A call is split at its only   *)
(* suspension point, time.sleep: Attempt is one pass through the body of   *)
(* the attempt loop up to the return, the raise or the call of time.sleep, *)
(* and SleepDone is the return of time.sleep and the next loop iteration.  *)
(* Durations are whole seconds.                                            *)
(***************************************************************************)
EXTENDS Integers, Sequences, FiniteSets, TLC

(***************************************************************************)
(* Bounds of the model.                                                    *)
(***************************************************************************)
\* largest max_retries of a policy of Spec
MaxRetries == 3
\* largest max_retries of a policy of SpecBackoff
MaxRetriesLong == 8
\* latest instant of a timestamp or of a reading of the clock
MaxTime == 3
\* longest list of places given to execute
MaxPlaces == 2
\* longest list of measurements the repository returns for one place
MaxBatch == 2
\* longest list of locations that get_locations returns
MaxLocations == 3
\* largest locations_limit
MaxLimit == 2
\* most calls recorded before the call in flight
MaxEarlier == 2
\* largest max_retries of a decorator shared by concurrent calls
MaxRetriesShared == 2

(***************************************************************************)
(* Exception classes and the subclass relation that `except` matches on.   *)
(***************************************************************************)
\* cls.__bases__ restricted to the named classes: the direct bases of a class.
\* requests.exceptions.JSONDecodeError has two, InvalidJSONError (a
\* RequestException) and json.JSONDecodeError (a ValueError).
Bases(cls) ==
  CASE cls \in {"ValueError", "TypeError", "KeyError"} -> {"Exception"}
    [] cls = "RequestException" -> {"Exception"}
    [] cls \in {"HTTPError", "ConnectionError", "Timeout"}
         -> {"RequestException"}
    [] cls = "JSONDecodeError" -> {"RequestException", "ValueError"}
    [] cls = "AirQualityError" -> {"Exception"}
    [] cls = "APIError" -> {"AirQualityError"}
    [] cls \in {"AuthenticationError", "RateLimitError", "NotFoundError"}
         -> {"APIError"}
    [] cls = "RetryError" -> {"Exception"}
    [] cls = "Exception" -> {"BaseException"}
    [] OTHER -> {}

\* issubclass(cls, base): base is cls or is reached through the bases
RECURSIVE IsSubclass(_, _)
IsSubclass(cls, base) ==
  \/ cls = base
  \/ \E b \in Bases(cls) : IsSubclass(b, base)

\* isinstance(e, exceptions) for a tuple of classes, as `except exceptions`
IsInstance(cls, classes) == \E base \in classes : IsSubclass(cls, base)

DEFAULT_RETRY_EXCEPTIONS == {"RequestException", "Timeout", "ConnectionError"}

RETRYABLE_STATUS_CODES == {408, 429, 500, 502, 503, 504}

(***************************************************************************)
(* Values: exceptions, results of the wrapped function, responses.         *)
(***************************************************************************)
NoStatus == 0
NoBody == "<None>"

\* an exception object: its class, the invocation (1-based) that raised it,
\* and the status_code / response_body (or the response of an HTTPError)
Exc(cls, at, status, body) ==
  [cls |-> cls, at |-> at, status |-> status, body |-> body]

NoExc == Exc("None", 0, NoStatus, NoBody)

\* a value returned by the wrapped function
Value(v) ==
  [kind |-> "value", value |-> v, status |-> NoStatus, text |-> NoBody,
   results |-> <<>>]
Response(status, text) ==
  [kind |-> "response", value |-> "", status |-> status, text |-> text,
   results |-> <<>>]
Results(rs) ==
  [kind |-> "results", value |-> "", status |-> NoStatus, text |-> NoBody,
   results |-> rs]
NoResult ==
  [kind |-> "none", value |-> "", status |-> NoStatus, text |-> NoBody,
   results |-> <<>>]

\* what one invocation of the wrapped function does: return ret or raise exc
Returned(ret) == [raised |-> FALSE, exc |-> NoExc, ret |-> ret]
Raised(exc) == [raised |-> TRUE, exc |-> exc, ret |-> NoResult]

(***************************************************************************)
(* The retry policy: the arguments of retry_with_backoff.                  *)
(***************************************************************************)
Policy(n, base, cap, expo, classes) ==
  [max_retries |-> n, base_delay |-> base, max_delay |-> cap,
   exponential_base |-> expo, exceptions |-> classes]

\* the policy of the three decorated adapter methods:
\* @retry_with_backoff(max_retries=3, base_delay=1.0), other arguments default
ADAPTER_MAX_RETRIES == 3

AdapterPolicyRetriesAPIError ==
  Policy(ADAPTER_MAX_RETRIES, 1, 60, 2, DEFAULT_RETRY_EXCEPTIONS \cup {"APIError"})

AdapterPolicy == Policy(ADAPTER_MAX_RETRIES, 1, 60, 2, DEFAULT_RETRY_EXCEPTIONS)

RECURSIVE Pow(_, _)
Pow(b, e) == IF e <= 0 THEN 1 ELSE b * Pow(b, e - 1)

Min(a, b) == IF a <= b THEN a ELSE b

DelayUncapped(p, i) == p.base_delay * Pow(p.exponential_base, i)

\* delay = min(base_delay * (exponential_base**attempt), max_delay)
Delay(p, i) == Min(p.base_delay * Pow(p.exponential_base, i), p.max_delay)

(***************************************************************************)
(* The response classifier of the adapter.                                 *)
(***************************************************************************)
BodyResults == "{\"results\": [1, 2]}"
BodyEmptyResults == "{\"results\": []}"
BodyNoResults == "{\"detail\": \"x\"}"
BodyRateLimit == "Rate limit exceeded"

\* response.json(): the parsed payload of a body text
ParseJson(text) ==
  CASE text = BodyResults -> [valid |-> TRUE, hasResults |-> TRUE, results |-> <<1, 2>>]
    [] text = BodyEmptyResults -> [valid |-> TRUE, hasResults |-> TRUE, results |-> <<>>]
    [] text = BodyNoResults -> [valid |-> TRUE, hasResults |-> FALSE, results |-> <<>>]
    [] OTHER -> [valid |-> FALSE, hasResults |-> FALSE, results |-> <<>>]

NoData == [valid |-> FALSE, hasResults |-> FALSE, results |-> <<>>]

\* response.raise_for_status() raises HTTPError for 4xx and 5xx only
RaisesForStatus(status) == 400 <= status /\ status < 600

ClassifyAllAsAPIError(status) == "APIError"

\* the if/elif chain of _handle_response: the class raised for a status
Classify(status) ==
  IF status \in {401, 403} THEN "AuthenticationError"
  ELSE IF status = 404 THEN "NotFoundError"
  ELSE IF status = 429 THEN "RateLimitError"
  ELSE "APIError"

HandleResponseDropsDetails(response, at) ==
  IF RaisesForStatus(response.status)
  THEN [raised |-> TRUE, data |-> NoData,
        exc |-> Exc(Classify(response.status), at, NoStatus, NoBody)]
  ELSE IF ~ParseJson(response.text).valid
  THEN [raised |-> TRUE, exc |-> Exc("JSONDecodeError", at, NoStatus, NoBody),
        data |-> NoData]
  ELSE [raised |-> FALSE, exc |-> NoExc, data |-> ParseJson(response.text)]

HandleResponseNoBody(response, at) ==
  IF RaisesForStatus(response.status)
  THEN [raised |-> TRUE, data |-> NoData,
        exc |-> Exc(Classify(response.status), at, response.status, NoBody)]
  ELSE IF ~ParseJson(response.text).valid
  THEN [raised |-> TRUE, exc |-> Exc("JSONDecodeError", at, NoStatus, NoBody),
        data |-> NoData]
  ELSE [raised |-> FALSE, exc |-> NoExc, data |-> ParseJson(response.text)]

\* _handle_response(response), called during invocation `at`
HandleResponse(response, at) ==
  IF RaisesForStatus(response.status)
  THEN [raised |-> TRUE, data |-> NoData,
        exc |-> Exc(Classify(response.status), at, response.status, response.text)]
  ELSE IF ~ParseJson(response.text).valid
  THEN [raised |-> TRUE, exc |-> Exc("JSONDecodeError", at, NoStatus, NoBody),
        data |-> NoData]
  ELSE [raised |-> FALSE, exc |-> NoExc, data |-> ParseJson(response.text)]

(***************************************************************************)
(* What the environment does during one invocation of the wrapped          *)
(* function.  For the adapter methods it is the HTTP exchange of           *)
(* session.get: a response, or a transport exception.  For a plain         *)
(* decorated function it is what the function itself does.                 *)
(***************************************************************************)
Does(kind, cls, value, status, text) ==
  [kind |-> kind, cls |-> cls, value |-> value, status |-> status, text |-> text]

DoesRaise(cls) == Does("raise", cls, "", NoStatus, NoBody)
DoesReturn(v) == Does("value", "None", v, NoStatus, NoBody)
DoesRespond(status, text) == Does("response", "None", "", status, text)

\* the body shared by get_countries, get_locations, get_latest_for_location:
\*   response = self.session.get(...); data = self._handle_response(response)
\*   ... len(data['results']) ...; return data["results"]
FetchResults(x, at) ==
  IF x.kind = "raise" THEN Raised(Exc(x.cls, at, NoStatus, NoBody))
  ELSE LET h == HandleResponse(Response(x.status, x.text), at)
       IN  IF h.raised THEN Raised(h.exc)
           ELSE IF ~h.data.hasResults
           THEN Raised(Exc("KeyError", at, NoStatus, NoBody))
           ELSE Returned(Results(h.data.results))

get_countries(x, at) == FetchResults(x, at)
get_locations(x, at) == FetchResults(x, at)
get_latest_for_location(x, at) == FetchResults(x, at)

\* a plain decorated function, as in the tests of the decorator
PlainFunc(x, at) ==
  CASE x.kind = "raise" -> Raised(Exc(x.cls, at, NoStatus, NoBody))
    [] x.kind = "response" -> Returned(Response(x.status, x.text))
    [] OTHER -> Returned(Value(x.value))

AdapterOps == {"get_countries", "get_locations", "get_latest_for_location"}

\* result = func(*args, **kwargs)
Invoke(f, x, at) ==
  CASE f = "get_countries" -> get_countries(x, at)
    [] f = "get_locations" -> get_locations(x, at)
    [] f = "get_latest_for_location" -> get_latest_for_location(x, at)
    [] OTHER -> PlainFunc(x, at)

(***************************************************************************)
(* The steps of retry_with_backoff.wrapper.                                *)
(***************************************************************************)
CheckStatusNever(o, at) == o

CheckStatusDropsResponse(o, at) ==
  IF ~o.raised /\ o.ret.kind = "response"
     /\ o.ret.status \in RETRYABLE_STATUS_CODES
  THEN Raised(Exc("HTTPError", at, NoStatus, NoBody))
  ELSE o

CheckStatusInverted(o, at) ==
  IF ~o.raised /\ o.ret.kind = "response"
     /\ o.ret.status \notin RETRYABLE_STATUS_CODES
  THEN Raised(Exc("HTTPError", at, o.ret.status, o.ret.text))
  ELSE o

\* lines 80-88: a returned Response with a retryable status becomes a raised
\* HTTPError that carries the response
CheckStatus(o, at) ==
  IF ~o.raised /\ o.ret.kind = "response"
     /\ o.ret.status \in RETRYABLE_STATUS_CODES
  THEN Raised(Exc("HTTPError", at, o.ret.status, o.ret.text))
  ELSE o

CatchesAll(p, e) == TRUE

\* `except exceptions as e`
Catches(p, e) == IsInstance(e.cls, p.exceptions)

ExhaustedOneEarly(p, i) == i + 1 >= p.max_retries

ExhaustedNever(p, i) == FALSE

\* `if attempt == max_retries`
Exhausted(p, i) == i = p.max_retries

NextAttemptSkips(i) == i + 2

NextAttemptStuck(i) == i

\* `for attempt in range(max_retries + 1)`: the value after attempt i
NextAttempt(i) == i + 1

\* what a call does that an observer can see, in order: an invocation of
\* the decorated function, a logger.warning record, a time.sleep call, a
\* logger.error record
Event(kind, n, delay) == [kind |-> kind, n |-> n, delay |-> delay]

\* func(*args, **kwargs) during attempt i
InvokeEvent(i) == Event("invoke", i, 0)

WarningRecordZeroBased(p, i) == Event("warning", i, Delay(p, i))

\* logger.warning(f"Attempt {attempt + 1}/{max_retries + 1} ... failed ...
\* Retrying in {delay:.2f}s...")
WarningRecord(p, i) == Event("warning", i + 1, Delay(p, i))

\* time.sleep(delay)
SleepEvent(p, i) == Event("sleep", i, Delay(p, i))

\* logger.error(f"All {max_retries} retries exhausted ...")
ErrorRecord(p) == Event("error", p.max_retries, 0)

(***************************************************************************)
(* Measurements and their validation (domain/models.py,                    *)
(* domain/validators.py).  Texts that the code searches or compares by     *)
(* prefix are sequences of characters; None is a sentinel of each type.    *)
(***************************************************************************)
NoneText == <<"<None>">>
NoneStr == "<None>"
NoneNum == [isNone |-> TRUE, num |-> 0]
Num(n) == [isNone |-> FALSE, num |-> n]

\* a timestamp: None, a value that is not a datetime, or a datetime with
\* (aware) or without (naive) a time zone, at instant t
NoneTime == [kind |-> "None", t |-> 0]
StrTime(t) == [kind |-> "str", t |-> t]
Aware(t) == [kind |-> "aware", t |-> t]
Naive(t) == [kind |-> "naive", t |-> t]

Measurement(city, location, parameter, value, unit, timestamp) ==
  [city |-> city, location |-> location, parameter |-> parameter,
   value |-> value, unit |-> unit, timestamp |-> timestamp]

\* `not x` for a text or a string
Falsy(x) == x = NoneText \/ x = <<>>
FalsyStr(x) == x = NoneStr \/ x = ""

Passed == [cls |-> "None", msg |-> ""]
Fails(cls, msg) == [cls |-> cls, msg |-> msg]

\* validate_measurement(measurement) when datetime.now(timezone.utc) reads
\* `now`: the exception it raises, or Passed.  Comparing a naive datetime
\* with the aware reading of the clock raises TypeError.
validate_measurement(m, now) ==
  IF Falsy(m.city) THEN Fails("ValidationError", "City is required")
  ELSE IF Falsy(m.location) THEN Fails("ValidationError", "Location is required")
  ELSE IF m.parameter = NoneStr THEN Fails("ValidationError", "Parameter is required")
  ELSE IF m.value.isNone THEN Fails("ValidationError", "Measurement value is required")
  ELSE IF m.value.num < 0
  THEN Fails("ValidationError", "Measurement value cannot be negative")
  ELSE IF FalsyStr(m.unit) THEN Fails("ValidationError", "Unit is required")
  ELSE IF m.timestamp.kind \notin {"aware", "naive"}
  THEN Fails("ValidationError", "Timestamp must be datetime")
  ELSE IF m.timestamp.kind = "naive"
  THEN Fails("TypeError", "can't compare offset-naive and offset-aware datetimes")
  ELSE IF m.timestamp.t > now
  THEN Fails("ValidationError", "Timestamp cannot be in the future")
  ELSE Passed

(***************************************************************************)
(* The use case (application/usecases/fetch_air_quality.py) and the        *)
(* storages behind its port.                                               *)
(***************************************************************************)
\* lines 49-58: the measurements of one batch that validate_measurement
\* accepts, in order; pairs are [m, now], now being the reading of the clock
\* during the validation of m
RECURSIVE ValidOnes(_)
ValidOnes(pairs) ==
  IF pairs = <<>> THEN <<>>
  ELSE IF validate_measurement(pairs[1].m, pairs[1].now) = Passed
       THEN <<pairs[1].m>> \o ValidOnes(Tail(pairs))
       ELSE ValidOnes(Tail(pairs))

\* the first exception other than ValidationError that the validation of a
\* batch raises: `except ValidationError` does not catch it
RECURSIVE Crash(_)
Crash(pairs) ==
  IF pairs = <<>> THEN Passed
  ELSE IF validate_measurement(pairs[1].m, pairs[1].now).cls \in {"None", "ValidationError"}
       THEN Crash(Tail(pairs))
       ELSE validate_measurement(pairs[1].m, pairs[1].now)

StartsWith(text, prefix) ==
  /\ Len(text) >= Len(prefix)
  /\ SubSeq(text, 1, Len(prefix)) = prefix

GsScheme == <<"g", "s", ":", "/", "/">>
GcsUri == GsScheme \o <<"b", "/", "f">>
LocalPath == <<"o", "u", "t", "/", "f">>
EmptyPath == <<>>

\* storage.save(measurements): LocalStorage and GCSStorage return "" for an
\* empty list; the mock storage of the tests always returns a gs:// URI
SavePath(storage, ms) ==
  CASE storage = "local" -> IF ms = <<>> THEN EmptyPath ELSE LocalPath
    [] storage = "gcs" -> IF ms = <<>> THEN EmptyPath ELSE GcsUri
    [] OTHER -> GcsUri

ShouldLoadAlways(loader, path) == loader

\* `if self.data_warehouse_loader and output_path.startswith("gs://")`
ShouldLoad(loader, path) == loader /\ StartsWith(path, GsScheme)

\* the for loop of fetch_measurements ends after the last place
NextIsLast(ps, done) == done + 1 = Len(ps)

(***************************************************************************)
(* get_measurements_for_place of the OpenAQ adapter and its helpers.       *)
(***************************************************************************)
\* str.lower() of one character: an ASCII capital becomes its small letter,
\* every other character of the model (small letters, digits, "/", ":") stays
Lower(c) ==
  CASE c = "A" -> "a"
    [] c = "B" -> "b"
    [] c = "C" -> "c"
    [] c = "D" -> "d"
    [] c = "E" -> "e"
    [] c = "F" -> "f"
    [] c = "G" -> "g"
    [] c = "H" -> "h"
    [] c = "I" -> "i"
    [] c = "J" -> "j"
    [] c = "K" -> "k"
    [] c = "L" -> "l"
    [] c = "M" -> "m"
    [] c = "N" -> "n"
    [] c = "O" -> "o"
    [] c = "P" -> "p"
    [] c = "Q" -> "q"
    [] c = "R" -> "r"
    [] c = "S" -> "s"
    [] c = "T" -> "t"
    [] c = "U" -> "u"
    [] c = "V" -> "v"
    [] c = "W" -> "w"
    [] c = "X" -> "x"
    [] c = "Y" -> "y"
    [] c = "Z" -> "z"
    [] OTHER -> c

LowerText(t) == [i \in 1..Len(t) |-> Lower(t[i])]

\* `a in b` for texts: a is a substring of b
Contains(a, b) ==
  /\ Len(a) <= Len(b)
  /\ \E i \in 0..(Len(b) - Len(a)) : SubSeq(b, i + 1, i + Len(a)) = a

\* `x or ""`
OrEmpty(x) == IF x = NoneText THEN <<>> ELSE x

Range(f) == {f[i] : i \in DOMAIN f}

LocationMatchesAny(loc, place) == TRUE

\* _location_matches_place(loc, place)
LocationMatchesPlace(loc, place) ==
  LET aliases  == {LowerText(a) : a \in Range(place.city_aliases)}
      locality == LowerText(OrEmpty(loc.locality))
      name     == LowerText(OrEmpty(loc.name))
  IN  locality \in aliases \/ \E alias \in aliases : Contains(alias, name)

\* [loc for loc in locations if self._location_matches_place(loc, place)]
RECURSIVE FilterLocations(_, _)
FilterLocations(locs, place) ==
  IF locs = <<>> THEN <<>>
  ELSE (IF LocationMatchesPlace(locs[1], place) THEN <<locs[1]>> ELSE <<>>)
         \o FilterLocations(Tail(locs), place)

\* seq[:n], as Python slices: a negative n drops the last -n elements
Slice(seq, n) ==
  IF n >= 0 THEN SubSeq(seq, 1, Min(n, Len(seq)))
  ELSE SubSeq(seq, 1, IF Len(seq) + n < 0 THEN 0 ELSE Len(seq) + n)

REQUIRED_PARAMETERS == <<"pm25", "pm10", "o3", "no2">>

\* AirQualityParameter(param_name) succeeds for these names only
AirQualityParameters == {"pm25", "pm10", "o3", "no2"}

DefaultUnit == "ug/m3"

\* _build_sensor_parameter_map(location): the sensors that the map keeps,
\* a later sensor replacing an earlier one of the same id
SensorMapHas(loc, id) ==
  \E i \in 1..Len(loc.sensors) :
    /\ loc.sensors[i].id = id
    /\ ~FalsyStr(loc.sensors[i].name)
    /\ loc.sensors[i].name \in AirQualityParameters

SensorMapGet(loc, id) ==
  LET last == CHOOSE i \in 1..Len(loc.sensors) :
                /\ loc.sensors[i].id = id
                /\ ~FalsyStr(loc.sensors[i].name)
                /\ loc.sensors[i].name \in AirQualityParameters
                /\ \A j \in (i + 1)..Len(loc.sensors) :
                     ~(/\ loc.sensors[j].id = id
                       /\ ~FalsyStr(loc.sensors[j].name)
                       /\ loc.sensors[j].name \in AirQualityParameters)
  IN  [parameter |-> loc.sensors[last].name, unit |-> loc.sensors[last].units]

\* datetime.fromisoformat(item["datetime"]["utc"].replace("Z", "+00:00")):
\* aware when the text ends in Z or an offset, naive otherwise
ParseUtc(utc) == IF utc.zone = "" THEN Naive(utc.t) ELSE Aware(utc.t)

\* the loop of _get_latest_measurements_by_location: the measurement kept
\* for a parameter is that of the last item of a sensor of this parameter
LatestFor(loc, items, param) ==
  LET hits == {i \in 1..Len(items) :
                 /\ SensorMapHas(loc, items[i].sensorsId)
                 /\ SensorMapGet(loc, items[i].sensorsId).parameter = param}
  IN  IF hits = {} THEN <<>>
      ELSE LET i == CHOOSE k \in hits : \A j \in hits : j <= k
           IN  <<Measurement(loc.locality, loc.name, param, Num(items[i].value),
                             SensorMapGet(loc, items[i].sensorsId).unit,
                             ParseUtc(items[i].utc))>>

\* _get_latest_measurements_by_location(location), then lines 307-309: the
\* measurements that are not None, in the order of REQUIRED_PARAMETERS
MeasurementsOf(loc, items) ==
  LatestFor(loc, items, REQUIRED_PARAMETERS[1])
    \o LatestFor(loc, items, REQUIRED_PARAMETERS[2])
    \o LatestFor(loc, items, REQUIRED_PARAMETERS[3])
    \o LatestFor(loc, items, REQUIRED_PARAMETERS[4])

(***************************************************************************)
(* Several calls through one decorated function.                           *)
(***************************************************************************)
\* the calls in flight at the same time, e.g. one per thread
Callers == {"a", "b"}

\* the local variables of wrapper at its entry (lines 73-76), and how the
\* call ended
NewFrame ==
  [pc |-> "idle", attempt |-> 0, last_exception |-> NoExc, calls |-> 0,
   sleeps |-> <<>>, kind |-> "none", ret |-> NoResult, exc |-> NoExc,
   last |-> NoExc]

\* no decorator built yet
Undecorated == Policy(0, 0, 0, 0, {})

FrameShared(c) == "a"

\* where call c keeps last_exception and attempt: they are local variables
\* of wrapper, so each call has its own
Frame(c) == c

(***************************************************************************)
(* State.                                                                  *)
(***************************************************************************)
VARIABLES
  func,            \* the decorated function of the call in flight
  policy,          \* the arguments its decorator was built with
  pc,              \* "idle", "attempting", "sleeping" or "done"
  attempt,         \* the loop variable of `for attempt in range(...)`
  last_exception,  \* the local variable last_exception
  calls,           \* invocations of the decorated function in this call
  requests,        \* session.get requests sent in this call
  history,         \* what the environment did at each invocation
  sleeps,          \* the arguments of the time.sleep calls of this call
  outcome,         \* how the call ended: a returned value or a raised exception
  trace,           \* the invocations, log records and sleeps of this call
  vm,              \* the measurement last given to validate_measurement
  vnow,            \* what datetime.now read during that validation
  vres,            \* what that validation did
  upc,             \* execute: "idle", "fetching", "saving", "loading", "done"
  places,          \* the argument places_list of execute
  storage,         \* the storage the use case was built with
  loader,          \* whether a data_warehouse_loader was given
  fetchCalls,      \* the places passed to get_measurements_for_place, in order
  fetched,         \* every measurement the repository returned, in order
  all_measurements, \* the local list all_measurements of fetch_measurements
  saveCalls,       \* the lists passed to storage.save, in order
  loadCalls,       \* the URIs passed to load_from_gcs, in order
  uresult,         \* how execute ended
  fetchRaised,     \* the class get_measurements_for_place raised, or "None"
  gpc,             \* get_measurements_for_place: "idle", "querying", "done"
  gplace,          \* its argument place
  glimit,          \* its argument locations_limit
  locationsCalls,  \* the country codes passed to get_locations, in order
  glocations,      \* what get_locations returned
  queried,         \* the location ids passed to get_latest_for_location
  gmeasurements,   \* its local list all_measurements
  gresult,         \* how it ended: "none", "return" or the class raised
  earlier,         \* how the calls before the one in flight ended, in order
  frames,          \* concurrent calls: the local variables of each call
  made,            \* concurrent calls: what each call's invocations did
  shared           \* concurrent calls: the policy of the shared decorator

retryVars == <<func, policy, pc, attempt, last_exception, calls, requests,
               history, sleeps, outcome, trace>>

valVars == <<vm, vnow, vres>>

ucVars == <<upc, places, storage, loader, fetchCalls, fetched,
            all_measurements, saveCalls, loadCalls, uresult, fetchRaised>>

gpVars == <<gpc, gplace, glimit, locationsCalls, glocations, queried,
            gmeasurements, gresult>>

seqVars == <<earlier>>

ccVars == <<frames, made, shared>>

vars == <<retryVars, valVars, ucVars, gpVars, seqVars, ccVars>>

NoReturn == [kind |-> "none", path |-> EmptyPath, cls |-> "None"]
Returns(path) == [kind |-> "return", path |-> path, cls |-> "None"]
Raises(cls) == [kind |-> "raise", path |-> EmptyPath, cls |-> cls]

NoOutcome == [kind |-> "none", ret |-> NoResult, exc |-> NoExc, last |-> NoExc]
Return(ret) == [kind |-> "return", ret |-> ret, exc |-> NoExc, last |-> NoExc]
Raise(exc) == [kind |-> "raise", ret |-> NoResult, exc |-> exc, last |-> NoExc]
\* raise RetryError(..., last_exception=e)
RaiseRetryError(e) ==
  [kind |-> "raise", ret |-> NoResult,
   exc |-> Exc("RetryError", 0, NoStatus, NoBody), last |-> e]

(***************************************************************************)
(* Inputs.                                                                 *)
(***************************************************************************)
\* exception tuples of the decorators in the tests, the default, and the
\* tuple of retry_on_rate_limit
ExceptionTuples ==
  {{"Exception"}, {"ValueError"}, DEFAULT_RETRY_EXCEPTIONS, {"RequestException"}}

\* (base_delay, max_delay, exponential_base): the defaults, and the values of
\* retry_on_rate_limit
DelayArgs == {<<1, 60, 2>>, <<2, 120, 2>>}

PlainPolicies ==
  {Policy(n, d[1], d[2], d[3], cs) :
     n \in -1..MaxRetries, d \in DelayArgs, cs \in ExceptionTuples}

PlainRaises == {"Exception", "ValueError", "TypeError", "ConnectionError"}
PlainValues == {"ok", "other"}
PlainStatuses == RETRYABLE_STATUS_CODES \cup {200, 404}

PlainBehaviours ==
  {DoesRaise(c) : c \in PlainRaises}
    \cup {DoesReturn(v) : v \in PlainValues}
    \cup {DoesRespond(s, BodyRateLimit) : s \in PlainStatuses}

TransportExceptions == {"ConnectionError", "Timeout"}
Statuses == RETRYABLE_STATUS_CODES \cup {200, 304, 400, 401, 403, 404}
Bodies == {BodyResults, BodyEmptyResults, BodyNoResults, BodyRateLimit}

Exchanges ==
  {DoesRaise(c) : c \in TransportExceptions}
    \cup {DoesRespond(s, t) : s \in Statuses, t \in Bodies}

Behaviours(f) == IF f \in AdapterOps THEN Exchanges ELSE PlainBehaviours

\* the fields a Measurement may hold
Cities == {NoneText, <<>>, <<"W", "a">>}
LocationNames == {NoneText, <<>>, <<"S", "t">>}
Parameters == {NoneStr, "pm25"}
MeasuredValues == {NoneNum, Num(-5), Num(0), Num(15)}
Units == {NoneStr, "", "ug/m3"}
Times == 1..MaxTime
Timestamps ==
  {NoneTime, StrTime(1)} \cup {Aware(t) : t \in Times} \cup {Naive(t) : t \in Times}

Measurements ==
  {Measurement(c, l, p, v, u, ts) :
     c \in Cities, l \in LocationNames, p \in Parameters,
     v \in MeasuredValues, u \in Units, ts \in Timestamps}

\* the readings of the clock: never the first nor the last instant, so that
\* a timestamp can lie before and after the reading
ClockReadings == {t \in Times : 1 < t /\ t < MaxTime}

NoMeasurement == Measurement(NoneText, NoneText, NoneStr, NoneNum, NoneStr, NoneTime)

\* sequences over S of length at most n
SeqsUpTo(S, n) == UNION {[1..k -> S] : k \in 0..n}

\* the lists of places of the tests: PL and GB, in any order and number
PlaceLists == SeqsUpTo({"PL", "GB"}, MaxPlaces)

StorageKinds == {"local", "gcs", "mock"}

\* measurements a repository returns: the valid and the negative one of
\* test_fetches_validates_and_stores_measurements, the valid one of
\* test_accepts_zero_value, and one whose timestamp has no time zone
StationA == Measurement(<<"W", "a">>, <<"S", "t">>, "pm25", Num(15), "ug/m3", Aware(1))
StationB == Measurement(<<"W", "a">>, <<"S", "t">>, "pm25", Num(-5), "ug/m3", Aware(1))
StationZero == Measurement(<<"W", "a">>, <<"S", "t">>, "pm25", Num(0), "ug/m3", Aware(1))
StationNaive == Measurement(<<"W", "a">>, <<"S", "t">>, "pm25", Num(15), "ug/m3", Naive(1))

\* the reading of the clock during a run of the pipeline: the earliest one
RunClock == CHOOSE t \in ClockReadings : \A u \in ClockReadings : t <= u

\* a batch: what get_measurements_for_place returns, no measurement twice,
\* each with the reading of the clock at its validation
Batches ==
  {b \in SeqsUpTo([m : {StationA, StationB, StationZero, StationNaive},
                   now : {RunClock}], MaxBatch) :
     \A i, j \in 1..Len(b) : i # j => b[i] # b[j]}

\* what get_measurements_for_place may raise
FetchErrors == {"RetryError", "APIError", "KeyError"}

Place(iso, aliases) == [country_iso |-> iso, city_aliases |-> aliases]

Sensor(id, name, units) == [id |-> id, name |-> name, units |-> units]

Location(id, name, locality, sensors) ==
  [id |-> id, name |-> name, locality |-> locality, sensors |-> sensors]

Item(sensorsId, value, t, zone) ==
  [sensorsId |-> sensorsId, value |-> value, utc |-> [t |-> t, zone |-> zone]]

\* the places: Warsaw with two aliases as in the tests, Krakow, and a place
\* without aliases
GivenPlaces ==
  {Place("PL", <<<<"W", "a">>, <<"W", "z">>>>), Place("PL", <<<<"K", "r">>>>),
   Place("GB", <<>>)}

\* the stations: one of Warsaw by its locality, one of Krakow, one without
\* locality whose name contains the alias in capitals, one without a name
\* and with a locality that only contains the alias
WarsawStation ==
  Location(1, <<"S", "t">>, <<"W", "a">>,
           <<Sensor(101, "pm25", DefaultUnit), Sensor(102, "so2", DefaultUnit)>>)
KrakowStation ==
  Location(2, <<"S", "t">>, <<"K", "r">>, <<Sensor(201, "pm25", DefaultUnit)>>)
NamedStation ==
  Location(3, <<"x", "W", "A">>, NoneText,
           <<Sensor(301, "pm10", "ppm"), Sensor(302, NoneStr, DefaultUnit)>>)
SuburbStation ==
  Location(4, NoneText, <<"W", "a", "x">>, <<>>)

Stations == {WarsawStation, KrakowStation, NamedStation, SuburbStation}

\* the lists of stations get_locations may return: no station twice
LocationLists ==
  {l \in SeqsUpTo(Stations, MaxLocations) :
     \A i, j \in 1..Len(l) : i # j => l[i] # l[j]}

\* what get_latest_for_location may return
ItemLists ==
  {<<>>,
   <<Item(101, 25, 1, "Z")>>,
   <<Item(101, 25, 1, "Z"), Item(301, 7, 1, ""), Item(101, 30, 2, "Z")>>,
   <<Item(999, 1, 1, "Z"), Item(102, 3, 1, "Z"), Item(201, 4, 1, "Z")>>}

\* what get_locations and get_latest_for_location may raise
AdapterErrors == {"RetryError", "APIError", "NotFoundError"}

(***************************************************************************)
(* Actions.                                                                *)
(***************************************************************************)
Init ==
  /\ func = "none"
  /\ policy = AdapterPolicy
  /\ pc = "idle"
  /\ attempt = 0
  /\ last_exception = NoExc
  /\ calls = 0
  /\ requests = 0
  /\ history = <<>>
  /\ sleeps = <<>>
  /\ outcome = NoOutcome
  /\ trace = <<>>
  /\ vm = NoMeasurement
  /\ vnow = 0
  /\ vres = Passed
  /\ upc = "idle"
  /\ places = <<>>
  /\ storage = "mock"
  /\ loader = FALSE
  /\ fetchCalls = <<>>
  /\ fetched = <<>>
  /\ all_measurements = <<>>
  /\ saveCalls = <<>>
  /\ loadCalls = <<>>
  /\ uresult = NoReturn
  /\ fetchRaised = "None"
  /\ gpc = "idle"
  /\ gplace = Place("PL", <<>>)
  /\ glimit = 0
  /\ locationsCalls = <<>>
  /\ glocations = <<>>
  /\ queried = <<>>
  /\ gmeasurements = <<>>
  /\ gresult = "none"
  /\ earlier = <<>>
  /\ frames = [c \in Callers |-> NewFrame]
  /\ made = [c \in Callers |-> <<>>]
  /\ shared = Undecorated

EnterKeepsAttempt(f, p) ==
  /\ pc \in {"idle", "done"}
  /\ func' = f
  /\ policy' = p
  /\ pc' = "attempting"
  /\ attempt' = attempt
  /\ last_exception' = NoExc
  /\ calls' = 0
  /\ requests' = 0
  /\ history' = <<>>
  /\ sleeps' = <<>>
  /\ outcome' = NoOutcome
  /\ trace' = <<>>
  /\ UNCHANGED <<valVars, ucVars, gpVars, ccVars>>

\* wrapper(*args, **kwargs) is entered: lines 73-76
Enter(f, p) ==
  /\ pc \in {"idle", "done"}
  /\ func' = f
  /\ policy' = p
  /\ pc' = "attempting"
  /\ attempt' = 0
  /\ last_exception' = NoExc
  /\ calls' = 0
  /\ requests' = 0
  /\ history' = <<>>
  /\ sleeps' = <<>>
  /\ outcome' = NoOutcome
  /\ trace' = <<>>
  /\ UNCHANGED <<valVars, ucVars, gpVars, ccVars>>

CallPlain == (\E p \in PlainPolicies : Enter("func", p)) /\ UNCHANGED seqVars

CallAdapter == (\E f \in AdapterOps : Enter(f, AdapterPolicy)) /\ UNCHANGED seqVars

\* one pass through the loop body, lines 77-115, up to the return, the raise
\* or the call of time.sleep, when the environment does x
AttemptWith(x) ==
  LET at == calls + 1
      o  == CheckStatus(Invoke(func, x, at), at)
  IN
  /\ pc = "attempting"
  /\ attempt <= policy.max_retries
  /\ calls' = at
  /\ requests' = IF func \in AdapterOps THEN requests + 1 ELSE requests
  /\ history' = Append(history, x)
  /\ IF ~o.raised
     THEN /\ outcome' = Return(o.ret)
          /\ pc' = "done"
          /\ trace' = Append(trace, InvokeEvent(attempt))
          /\ UNCHANGED <<last_exception, sleeps>>
     ELSE IF ~Catches(policy, o.exc)
     THEN /\ outcome' = Raise(o.exc)
          /\ pc' = "done"
          /\ trace' = Append(trace, InvokeEvent(attempt))
          /\ UNCHANGED <<last_exception, sleeps>>
     ELSE /\ last_exception' = o.exc
          /\ IF Exhausted(policy, attempt)
             THEN /\ outcome' = RaiseRetryError(o.exc)
                  /\ pc' = "done"
                  /\ trace' = trace \o <<InvokeEvent(attempt), ErrorRecord(policy)>>
                  /\ UNCHANGED sleeps
             ELSE /\ sleeps' = Append(sleeps, Delay(policy, attempt))
                  /\ pc' = "sleeping"
                  /\ trace' = trace \o <<InvokeEvent(attempt),
                                          WarningRecord(policy, attempt),
                                          SleepEvent(policy, attempt)>>
                  /\ UNCHANGED outcome
  /\ UNCHANGED <<func, policy, attempt>>
  /\ UNCHANGED <<valVars, ucVars, gpVars, seqVars, ccVars>>

Attempt == \E x \in Behaviours(func) : AttemptWith(x)

\* time.sleep(delay) returns and the loop goes to its next iteration
SleepDone ==
  /\ pc = "sleeping"
  /\ attempt' = NextAttempt(attempt)
  /\ pc' = "attempting"
  /\ UNCHANGED <<func, policy, last_exception, calls, requests, history,
                 sleeps, outcome, trace>>
  /\ UNCHANGED <<valVars, ucVars, gpVars, seqVars, ccVars>>

LoopExitReturnsNone ==
  /\ pc = "attempting"
  /\ attempt > policy.max_retries
  /\ outcome' = Return(NoResult)
  /\ pc' = "done"
  /\ UNCHANGED <<func, policy, attempt, last_exception, calls, requests,
                 history, sleeps, trace>>
  /\ UNCHANGED <<valVars, ucVars, gpVars, seqVars, ccVars>>

\* lines 117-121: the loop ends without a return or a raise
LoopExit ==
  /\ pc = "attempting"
  /\ attempt > policy.max_retries
  /\ outcome' = RaiseRetryError(last_exception)
  /\ pc' = "done"
  /\ UNCHANGED <<func, policy, attempt, last_exception, calls, requests,
                 history, sleeps, trace>>
  /\ UNCHANGED <<valVars, ucVars, gpVars, seqVars, ccVars>>

Next == CallPlain \/ CallAdapter \/ Attempt \/ SleepDone \/ LoopExit

Spec == Init /\ [][Next]_vars

(***************************************************************************)
(* A specification for termination: every invocation of the operation and  *)
(* every sleep returns, so an attempt that has started completes, a sleep  *)
(* that has started ends, and the statement after the loop is executed.    *)
(* The function fails retryably or not, answers 503, or succeeds.          *)
(***************************************************************************)
LivePolicies ==
  {Policy(n, 1, 60, 2, cs) :
     n \in -1..MaxRetries, cs \in {DEFAULT_RETRY_EXCEPTIONS, {"ValueError"}}}

LiveBehaviours ==
  {DoesRaise("ConnectionError"), DoesRaise("ValueError"),
   DoesRespond(503, BodyRateLimit), DoesReturn("ok")}

CallLive == (\E p \in LivePolicies : Enter("func", p)) /\ UNCHANGED seqVars

AttemptLive == \E x \in LiveBehaviours : AttemptWith(x)

NextLive == CallLive \/ AttemptLive \/ SleepDone \/ LoopExit

SpecLive ==
  Init /\ [][NextLive]_vars
    /\ WF_vars(AttemptLive) /\ WF_vars(SleepDone) /\ WF_vars(LoopExit)

(***************************************************************************)
(* A second specification for the delay sequence: long retry budgets, and  *)
(* a function that fails with a transport error, answers 503 or succeeds.  *)
(***************************************************************************)
\* as DelayArgs, and a policy whose cap is not a power of its base
BackoffDelayArgs == DelayArgs \cup {<<1, 50, 3>>}

BackoffPolicies ==
  {Policy(n, d[1], d[2], d[3], DEFAULT_RETRY_EXCEPTIONS) :
     n \in 0..MaxRetriesLong, d \in BackoffDelayArgs}

BackoffBehaviours ==
  {DoesRaise("ConnectionError"), DoesRespond(503, BodyRateLimit), DoesReturn("ok")}

CallBackoff == (\E p \in BackoffPolicies : Enter("func", p)) /\ UNCHANGED seqVars

AttemptBackoff == \E x \in BackoffBehaviours : AttemptWith(x)

NextBackoff == CallBackoff \/ AttemptBackoff \/ SleepDone

SpecBackoff == Init /\ [][NextBackoff]_vars

(***************************************************************************)
(* A specification of calls through one decorated function that run at the *)
(* same time: the steps of the calls interleave in any order.  made[c]     *)
(* keeps what each invocation of call c did and its number among all       *)
(* invocations of the function.                                            *)
(***************************************************************************)
ConcurrentPolicies ==
  {Policy(n, 1, 60, 2, DEFAULT_RETRY_EXCEPTIONS) : n \in 0..MaxRetriesShared}

ConcurrentBehaviours ==
  {DoesRaise("ConnectionError"), DoesRaise("Timeout"), DoesRaise("ValueError"),
   DoesReturn("ok")}

\* the number of invocations of the decorated function so far, by all calls
Invocations == Len(made["a"]) + Len(made["b"])

\* retry_with_backoff(...)(func): the decorator is built once
Decorate ==
  \E p \in ConcurrentPolicies :
    /\ shared = Undecorated
    /\ shared' = p
    /\ UNCHANGED <<frames, made>>
    /\ UNCHANGED <<retryVars, valVars, ucVars, gpVars, seqVars>>

\* call c enters wrapper: lines 73-76
EnterCall(c) ==
  /\ shared # Undecorated
  /\ frames[c].pc = "idle"
  /\ frames' = [frames EXCEPT ![Frame(c)].attempt = 0,
                              ![Frame(c)].last_exception = NoExc,
                              ![c].pc = "attempting"]
  /\ UNCHANGED <<made, shared>>
  /\ UNCHANGED <<retryVars, valVars, ucVars, gpVars, seqVars>>

\* one pass of call c through the loop body, lines 77-115, up to the
\* return, the raise or the call of time.sleep, when the function does x
AttemptCall(c, x) ==
  LET at == Invocations + 1
      o  == CheckStatus(PlainFunc(x, at), at)
      i  == frames[Frame(c)].attempt
  IN
  /\ frames[c].pc = "attempting"
  /\ i <= shared.max_retries
  /\ made' = [made EXCEPT ![c] = Append(@, [x |-> x, id |-> at])]
  /\ frames' =
       IF ~o.raised
       THEN [frames EXCEPT ![c].calls = @ + 1, ![c].pc = "done",
                           ![c].kind = "return", ![c].ret = o.ret]
       ELSE IF ~Catches(shared, o.exc)
       THEN [frames EXCEPT ![c].calls = @ + 1, ![c].pc = "done",
                           ![c].kind = "raise", ![c].exc = o.exc]
       ELSE IF Exhausted(shared, i)
       THEN [frames EXCEPT ![Frame(c)].last_exception = o.exc,
                           ![c].calls = @ + 1, ![c].pc = "done",
                           ![c].kind = "raise",
                           ![c].exc = Exc("RetryError", 0, NoStatus, NoBody),
                           ![c].last = o.exc]
       ELSE [frames EXCEPT ![Frame(c)].last_exception = o.exc,
                           ![c].calls = @ + 1, ![c].pc = "sleeping",
                           ![c].sleeps = Append(@, Delay(shared, i))]
  /\ UNCHANGED shared
  /\ UNCHANGED <<retryVars, valVars, ucVars, gpVars, seqVars>>

\* time.sleep(delay) returns in call c and its loop goes on
SleepDoneCall(c) ==
  /\ frames[c].pc = "sleeping"
  /\ frames' = [frames EXCEPT ![Frame(c)].attempt = NextAttempt(@),
                              ![c].pc = "attempting"]
  /\ UNCHANGED <<made, shared>>
  /\ UNCHANGED <<retryVars, valVars, ucVars, gpVars, seqVars>>

EnterSomeCall == \E c \in Callers : EnterCall(c)

AttemptSomeCall == \E c \in Callers, x \in ConcurrentBehaviours : AttemptCall(c, x)

SleepDoneSomeCall == \E c \in Callers : SleepDoneCall(c)

NextConcurrent == Decorate \/ EnterSomeCall \/ AttemptSomeCall \/ SleepDoneSomeCall

SpecConcurrent == Init /\ [][NextConcurrent]_vars

(***************************************************************************)
(* A specification of calls that follow one another, as get_locations and  *)
(* then get_latest_for_location per station in get_measurements_for_place: *)
(* `earlier` keeps how each finished call ended.                           *)
(***************************************************************************)
\* how the call that has just finished ended, and how often it slept
Ended ==
  [ending |-> IF outcome.kind = "return" THEN "return" ELSE outcome.exc.cls,
   retries |-> Len(sleeps)]

SequenceOps == {"get_locations", "get_latest_for_location"}

\* the exchanges of the calls of a sequence: a transport failure, a page of
\* results, a missing resource
SequenceExchanges ==
  {DoesRaise("ConnectionError"), DoesRespond(200, BodyResults),
   DoesRespond(404, BodyRateLimit)}

\* the first call of a sequence, or the next one after the call in flight
\* has returned or raised
CallInSequence ==
  /\ \E f \in SequenceOps : Enter(f, AdapterPolicy)
  /\ IF pc = "done"
     THEN Len(earlier) < MaxEarlier /\ earlier' = Append(earlier, Ended)
     ELSE UNCHANGED earlier

AttemptInSequence == \E x \in SequenceExchanges : AttemptWith(x)

NextSequence == CallInSequence \/ AttemptInSequence \/ SleepDone

SpecSequence == Init /\ [][NextSequence]_vars

(***************************************************************************)
(* A specification of validate_measurement alone, over every measurement.  *)
(***************************************************************************)
Validate ==
  \E m \in Measurements, now \in ClockReadings :
    /\ vm' = m
    /\ vnow' = now
    /\ vres' = validate_measurement(m, now)
    /\ UNCHANGED <<retryVars, ucVars, gpVars, seqVars, ccVars>>

NextValidate == Validate

SpecValidate == Init /\ [][NextValidate]_vars

(***************************************************************************)
(* A specification of FetchAirQualityUseCase.execute, the repository and   *)
(* the storage being its ports.                                            *)
(***************************************************************************)
\* execute(places_list, locations_limit) is entered, up to the first call of
\* the repository (or of the storage, for an empty list); the use case keeps
\* nothing from one call to the next, so one call per behaviour is modelled
Execute ==
  \E ps \in PlaceLists, st \in StorageKinds, ld \in BOOLEAN :
    /\ upc = "idle"
    /\ places' = ps
    /\ storage' = st
    /\ loader' = ld
    /\ upc' = IF ps = <<>> THEN "saving" ELSE "fetching"
    /\ fetchCalls' = <<>>
    /\ fetched' = <<>>
    /\ all_measurements' = <<>>
    /\ saveCalls' = <<>>
    /\ loadCalls' = <<>>
    /\ uresult' = NoReturn
    /\ fetchRaised' = "None"
    /\ UNCHANGED <<retryVars, valVars, gpVars, seqVars, ccVars>>

\* one iteration of the loop of fetch_measurements in which the repository
\* returns a batch: lines 45-59
FetchPlaceReturns ==
  \E batch \in Batches :
    /\ upc = "fetching"
    /\ fetchCalls' = Append(fetchCalls, places[Len(fetchCalls) + 1])
    /\ fetched' = fetched \o batch
    /\ IF Crash(batch) # Passed
       THEN /\ upc' = "done"
            /\ uresult' = Raises(Crash(batch).cls)
            /\ UNCHANGED all_measurements
       ELSE /\ all_measurements' = all_measurements \o ValidOnes(batch)
            /\ upc' = IF NextIsLast(places, Len(fetchCalls)) THEN "saving" ELSE "fetching"
            /\ UNCHANGED uresult
    /\ UNCHANGED <<places, storage, loader, saveCalls, loadCalls, fetchRaised>>
    /\ UNCHANGED <<retryVars, valVars, gpVars, seqVars, ccVars>>

FetchPlaceSwallows ==
  \E cls \in FetchErrors :
    /\ upc = "fetching"
    /\ fetchCalls' = Append(fetchCalls, places[Len(fetchCalls) + 1])
    /\ fetchRaised' = cls
    /\ upc' = IF NextIsLast(places, Len(fetchCalls)) THEN "saving" ELSE "fetching"
    /\ UNCHANGED <<places, storage, loader, fetched, all_measurements,
                   saveCalls, loadCalls, uresult>>
    /\ UNCHANGED <<retryVars, valVars, gpVars, seqVars, ccVars>>

\* one iteration in which get_measurements_for_place raises: the exception
\* leaves fetch_measurements and execute
FetchPlaceRaises ==
  \E cls \in FetchErrors :
    /\ upc = "fetching"
    /\ fetchCalls' = Append(fetchCalls, places[Len(fetchCalls) + 1])
    /\ fetchRaised' = cls
    /\ upc' = "done"
    /\ uresult' = Raises(cls)
    /\ UNCHANGED <<places, storage, loader, fetched, all_measurements,
                   saveCalls, loadCalls>>
    /\ UNCHANGED <<retryVars, valVars, gpVars, seqVars, ccVars>>

\* lines 78-85 and 89: storage.save is called and returns; without a load
\* to do, execute returns the path
Save ==
  LET path == SavePath(storage, all_measurements) IN
  /\ upc = "saving"
  /\ saveCalls' = Append(saveCalls, all_measurements)
  /\ IF ShouldLoad(loader, path)
     THEN /\ upc' = "loading"
          /\ uresult' = [NoReturn EXCEPT !.path = path]
     ELSE /\ upc' = "done"
          /\ uresult' = Returns(path)
  /\ UNCHANGED <<places, storage, loader, fetchCalls, fetched,
                 all_measurements, loadCalls, fetchRaised>>
  /\ UNCHANGED <<retryVars, valVars, gpVars, seqVars, ccVars>>

\* lines 86-89: load_from_gcs(output_path) is called and returns, and
\* execute returns the path
Load ==
  /\ upc = "loading"
  /\ loadCalls' = Append(loadCalls, uresult.path)
  /\ upc' = "done"
  /\ uresult' = Returns(uresult.path)
  /\ UNCHANGED <<places, storage, loader, fetchCalls, fetched,
                 all_measurements, saveCalls, fetchRaised>>
  /\ UNCHANGED <<retryVars, valVars, gpVars, seqVars, ccVars>>

NextPipeline == Execute \/ FetchPlaceReturns \/ FetchPlaceRaises \/ Save \/ Load

SpecPipeline == Init /\ [][NextPipeline]_vars

(***************************************************************************)
(* A specification of OpenAQRepository.get_measurements_for_place, each    *)
(* call of get_locations and get_latest_for_location being one step.       *)
(***************************************************************************)
\* lines 294-305: the call is entered, get_locations returns, the locations
\* are filtered and cut to the limit; the method keeps nothing from one call
\* to the next, so one call per behaviour is modelled
GetLocationsReturns ==
  \E place \in GivenPlaces, limit \in 0..MaxLimit, locs \in LocationLists :
    /\ gpc = "idle"
    /\ gplace' = place
    /\ glimit' = limit
    /\ locationsCalls' = <<place.country_iso>>
    /\ glocations' = locs
    /\ queried' = <<>>
    /\ gmeasurements' = <<>>
    /\ IF Slice(FilterLocations(locs, place), limit) = <<>>
       THEN gpc' = "done" /\ gresult' = "return"
       ELSE gpc' = "querying" /\ gresult' = "none"
    /\ UNCHANGED <<retryVars, valVars, ucVars, seqVars, ccVars>>

\* the call is entered and get_locations raises
GetLocationsRaises ==
  \E place \in GivenPlaces, limit \in 0..MaxLimit, cls \in AdapterErrors :
    /\ gpc = "idle"
    /\ gplace' = place
    /\ glimit' = limit
    /\ locationsCalls' = <<place.country_iso>>
    /\ glocations' = <<>>
    /\ queried' = <<>>
    /\ gmeasurements' = <<>>
    /\ gpc' = "done"
    /\ gresult' = cls
    /\ UNCHANGED <<retryVars, valVars, ucVars, seqVars, ccVars>>

\* lines 305-309, one iteration: get_latest_for_location returns items for
\* the next location of the cut list
QueryReturns ==
  \E items \in ItemLists :
    LET todo == Slice(FilterLocations(glocations, gplace), glimit)
        loc  == todo[Len(queried) + 1]
    IN  /\ gpc = "querying"
        /\ queried' = Append(queried, loc.id)
        /\ gmeasurements' = gmeasurements \o MeasurementsOf(loc, items)
        /\ IF Len(queried) + 1 = Len(todo)
           THEN gpc' = "done" /\ gresult' = "return"
           ELSE UNCHANGED <<gpc, gresult>>
        /\ UNCHANGED <<gplace, glimit, locationsCalls, glocations>>
        /\ UNCHANGED <<retryVars, valVars, ucVars, seqVars, ccVars>>

\* one iteration in which get_latest_for_location raises
QueryRaises ==
  \E cls \in AdapterErrors :
    LET todo == Slice(FilterLocations(glocations, gplace), glimit)
        loc  == todo[Len(queried) + 1]
    IN  /\ gpc = "querying"
        /\ queried' = Append(queried, loc.id)
        /\ gpc' = "done"
        /\ gresult' = cls
        /\ UNCHANGED <<gplace, glimit, locationsCalls, glocations, gmeasurements>>
        /\ UNCHANGED <<retryVars, valVars, ucVars, seqVars, ccVars>>

NextPlace == GetLocationsReturns \/ GetLocationsRaises \/ QueryReturns \/ QueryRaises

SpecPlace == Init /\ [][NextPlace]_vars

(***************************************************************************)
(* Properties.                                                             *)
(***************************************************************************)
\* what the decorated function itself did at its i-th invocation
OpOutcome(i) == Invoke(func, history[i], i)

\* the i-th invocation raised an exception that `except exceptions` matches
RaisedRetryable(i) ==
  /\ OpOutcome(i).raised
  /\ \E base \in policy.exceptions : IsSubclass(OpOutcome(i).exc.cls, base)

\* the i-th invocation succeeded: it returned a result that is not a Response
\* with a retryable status (section 4.1, step 2)
Succeeded(i) ==
  /\ ~OpOutcome(i).raised
  /\ ~(OpOutcome(i).ret.kind = "response"
       /\ OpOutcome(i).ret.status \in {408, 429, 500, 502, 503, 504})

\* C1: for max_retries = n >= 0, a call whose operation raised a configured
\* retryable exception at every invocation ends only after exactly n+1
\* invocations, by raising RetryError whose last_exception is the exception
\* of the last, (n+1)-th, invocation.
C1_ExhaustionAfterNPlusOne ==
  (/\ pc = "done"
   /\ policy.max_retries >= 0
   /\ \A i \in 1..Len(history) : RaisedRetryable(i))
  => /\ calls = policy.max_retries + 1
     /\ outcome.kind = "raise"
     /\ outcome.exc.cls = "RetryError"
     /\ outcome.last = OpOutcome(policy.max_retries + 1).exc
     /\ outcome.last.at = policy.max_retries + 1

\* the scenario of test_raises_after_max_retries: max_retries=2, the function
\* always raises Exception, the call has ended after 3 invocations
C1_Witness ==
  /\ pc = "done"
  /\ func = "func"
  /\ policy.max_retries = 2
  /\ policy.exceptions = {"Exception"}
  /\ history = <<DoesRaise("Exception"), DoesRaise("Exception"), DoesRaise("Exception")>>
  /\ outcome.exc.cls = "RetryError"
  /\ outcome.last.at = 3

\* C2: when the operation raises a configured retryable exception at
\* attempts 0..k-1 and succeeds at attempt k <= n, the call has invoked it
\* exactly k+1 times, returns the value of attempt k unchanged, has slept k
\* times, and no further invocation can follow.
C2_SuccessAfterKFailures ==
  (/\ history # <<>>
   /\ policy.max_retries >= 0
   /\ Succeeded(Len(history))
   /\ \A i \in 1..(Len(history) - 1) : RaisedRetryable(i))
  => /\ pc = "done"
     /\ calls = Len(history)
     /\ calls <= policy.max_retries + 1
     /\ attempt = calls - 1
     /\ Len(sleeps) = calls - 1
     /\ outcome.kind = "return"
     /\ outcome.ret = OpOutcome(calls).ret
     /\ ~ENABLED Attempt

\* the scenario of test_retries_on_failure_then_succeeds with max_retries=2:
\* two failures, then "ok"
C2_Witness ==
  /\ pc = "done"
  /\ func = "func"
  /\ policy.max_retries = 2
  /\ policy.exceptions = {"Exception"}
  /\ history = <<DoesRaise("Exception"), DoesRaise("Exception"), DoesReturn("ok")>>
  /\ outcome.kind = "return"
  /\ outcome.ret.value = "ok"
  /\ calls = 3

\* the last invocation raised an exception of a class that `except
\* exceptions` does not match
LastRaisedUnexpected ==
  /\ history # <<>>
  /\ OpOutcome(Len(history)).raised
  /\ ~\E base \in policy.exceptions :
        IsSubclass(OpOutcome(Len(history)).exc.cls, base)

\* C3: an exception of a class outside the configured set ends the call at
\* the invocation that raised it: the caller gets that same exception, not a
\* RetryError, no sleep and no invocation follows it, and when it is raised
\* by the first invocation the operation was invoked exactly once.
C3_UnexpectedPropagates ==
  (policy.max_retries >= 0 /\ LastRaisedUnexpected)
  => /\ pc = "done"
     /\ outcome.kind = "raise"
     /\ outcome.exc = OpOutcome(Len(history)).exc
     /\ outcome.exc.cls # "RetryError"
     /\ outcome.last = NoExc
     /\ calls = Len(history)
     /\ Len(sleeps) = calls - 1
     /\ (attempt = 0 => calls = 1 /\ sleeps = <<>>)
     /\ ~ENABLED Attempt
     /\ ~ENABLED SleepDone

\* the scenario of test_does_not_retry_unexpected_exception: the configured
\* tuple is (ValueError,), the function raises TypeError
C3_Witness ==
  /\ pc = "done"
  /\ func = "func"
  /\ policy.max_retries = 3
  /\ policy.exceptions = {"ValueError"}
  /\ history = <<DoesRaise("TypeError")>>
  /\ outcome.kind = "raise"
  /\ outcome.exc.cls = "TypeError"
  /\ calls = 1

\* C4: the i-th sleep of a call (the wait before attempt i, after the
\* retryable failure of attempt i-1 < max_retries) lasts
\* min(base_delay * exponential_base^(i-1), max_delay); with base_delay=1,
\* exponential_base=2, max_delay=60 the waits are 1, 2, 4, 8, 16, 32 and
\* then 60.
C4_DelaySequence ==
  /\ \A i \in 1..Len(sleeps) :
       LET raw == policy.base_delay * Pow(policy.exponential_base, i - 1)
       IN  /\ sleeps[i] = IF raw < policy.max_delay THEN raw ELSE policy.max_delay
           /\ i <= policy.max_retries
           /\ RaisedRetryable(i) \/ OpOutcome(i).ret.status \in RETRYABLE_STATUS_CODES
  /\ pc = "sleeping" => Len(sleeps) = attempt + 1 /\ attempt < policy.max_retries
  /\ pc = "attempting" => Len(sleeps) = attempt
  /\ (policy.base_delay = 1 /\ policy.exponential_base = 2 /\ policy.max_delay = 60)
     => \A i \in 1..Len(sleeps) :
          sleeps[i] = IF i <= 6 THEN <<1, 2, 4, 8, 16, 32>>[i] ELSE 60

\* eight retries under the default delays: the cap is reached and kept
C4_Witness ==
  /\ pc = "sleeping"
  /\ policy.base_delay = 1 /\ policy.exponential_base = 2 /\ policy.max_delay = 60
  /\ sleeps = <<1, 2, 4, 8, 16, 32, 60, 60>>

\* C5: no call returns to its caller a Response whose status is one of
\* 408, 429, 500, 502, 503, 504, whatever the policy and the operation.
C5_NoRetryableResponseReturned ==
  outcome.kind = "return"
  => ~(outcome.ret.kind = "response"
       /\ outcome.ret.status \in {408, 429, 500, 502, 503, 504})

\* the operation returned a 429 Response under a policy whose tuple does not
\* match HTTPError, and the call ended without returning it
C5_Witness ==
  /\ pc = "done"
  /\ policy.exceptions = {"ValueError"}
  /\ history # <<>>
  /\ ~OpOutcome(Len(history)).raised
  /\ OpOutcome(Len(history)).ret.kind = "response"
  /\ OpOutcome(Len(history)).ret.status = 429
  /\ outcome.kind = "raise"

\* the last HTTP exchange of an adapter call was a response with status s
LastStatusIs(s) ==
  /\ func \in AdapterOps
  /\ history # <<>>
  /\ history[Len(history)].kind = "response"
  /\ history[Len(history)].status = s

\* C6: when every HTTP exchange of an adapter call answered 429, the call
\* ends only after exactly 4 requests were sent through the session.
C6_RateLimitRetriedToExhaustion ==
  (/\ pc = "done"
   /\ func \in AdapterOps
   /\ \A i \in 1..Len(history) :
        history[i].kind = "response" /\ history[i].status = 429)
  => requests = 4

\* C7: in an adapter call a response with a retryable status is classified
\* only on the final allowed attempt, and a call in which every exchange
\* answered such a status ends after max_retries+1 attempts with RetryError.
C7_ClassifiedOnlyAfterRetries ==
  /\ (/\ pc = "done"
      /\ func \in AdapterOps
      /\ outcome.kind = "raise"
      /\ outcome.exc.cls \in {"APIError", "RateLimitError", "AuthenticationError", "NotFoundError"}
      /\ outcome.exc.status \in {408, 429, 500, 502, 503, 504})
     => attempt = policy.max_retries
  /\ (/\ pc = "done"
      /\ func \in AdapterOps
      /\ \A i \in 1..Len(history) :
           /\ history[i].kind = "response"
           /\ history[i].status \in {408, 429, 500, 502, 503, 504})
     => /\ calls = policy.max_retries + 1
        /\ outcome.exc.cls = "RetryError"

\* C8: a 429 response that reaches _handle_response ends the adapter call
\* with RateLimitError whose status_code is 429 and whose response_body is
\* the body text of that response; get_countries against a server that
\* answers 429 raises RateLimitError to its caller.
C8_RateLimitErrorCarriesBody ==
  LastStatusIs(429)
  => /\ pc = "done"
     /\ outcome.kind = "raise"
     /\ outcome.exc.cls = "RateLimitError"
     /\ outcome.exc.status = 429
     /\ outcome.exc.body = history[Len(history)].text
     /\ outcome.last = NoExc

\* the scenario of test_raises_rate_limit_error_on_429
C8_Witness ==
  /\ pc = "done"
  /\ func = "get_countries"
  /\ history = <<DoesRespond(429, "Rate limit exceeded")>>
  /\ outcome.exc.cls = "RateLimitError"
  /\ outcome.exc.body = "Rate limit exceeded"

\* C9: a 404 response ends the adapter call at the attempt that received it
\* with NotFoundError: no sleep and no request follows it, and when it is the
\* answer to the first request exactly one request was sent and no sleep
\* occurred.
C9_NotFoundNotRetried ==
  LastStatusIs(404)
  => /\ pc = "done"
     /\ outcome.kind = "raise"
     /\ outcome.exc.cls = "NotFoundError"
     /\ outcome.exc.at = calls
     /\ requests = Len(history)
     /\ Len(sleeps) = requests - 1
     /\ (attempt = 0 => requests = 1 /\ calls = 1 /\ sleeps = <<>>)
     /\ ~ENABLED AttemptWith(history[Len(history)])

\* get_latest_for_location for a station that does not exist
C9_Witness ==
  /\ pc = "done"
  /\ func = "get_latest_for_location"
  /\ Len(history) = 1
  /\ history[1].kind = "response" /\ history[1].status = 404
  /\ outcome.exc.cls = "NotFoundError"
  /\ requests = 1
  /\ sleeps = <<>>

\* C10: a 401 or 403 response ends the adapter call at the attempt that
\* received it with AuthenticationError whose status_code is the received
\* status; no retry follows, and when it is the answer to the first request
\* exactly one request was sent.
C10_AuthenticationErrorNotRetried ==
  \A s \in {401, 403} :
    LastStatusIs(s)
    => /\ pc = "done"
       /\ outcome.kind = "raise"
       /\ outcome.exc.cls = "AuthenticationError"
       /\ outcome.exc.status = s
       /\ outcome.exc.at = calls
       /\ requests = Len(history)
       /\ Len(sleeps) = requests - 1
       /\ (attempt = 0 => requests = 1 /\ calls = 1 /\ sleeps = <<>>)

\* a 403 answer to the first request of get_locations
C10_Witness ==
  /\ pc = "done"
  /\ func = "get_locations"
  /\ Len(history) = 1
  /\ history[1].kind = "response" /\ history[1].status = 403
  /\ outcome.exc.cls = "AuthenticationError"
  /\ outcome.exc.status = 403
  /\ requests = 1

\* the four classes that _handle_response raises for a status
ClassifiedErrors ==
  {"AuthenticationError", "NotFoundError", "RateLimitError", "APIError"}

\* C11: every call of an adapter method ends by returning the parsed
\* results, by raising one of the four classified errors, or by raising
\* RetryError, and in no other way.
C11_ThreeOutcomesOnly ==
  (pc = "done" /\ func \in AdapterOps)
  => \/ outcome.kind = "return" /\ outcome.ret.kind = "results"
     \/ outcome.kind = "raise" /\ outcome.exc.cls \in ClassifiedErrors
     \/ outcome.kind = "raise" /\ outcome.exc.cls = "RetryError"

\* the last invocation returned a Response with a retryable status
LastReturnedRetryableStatus ==
  /\ history # <<>>
  /\ ~OpOutcome(Len(history)).raised
  /\ OpOutcome(Len(history)).ret.kind = "response"
  /\ OpOutcome(Len(history)).ret.status \in {408, 429, 500, 502, 503, 504}

\* C12: under every policy a returned Response with a retryable status is a
\* retryable failure: the call sleeps and retries while attempts remain and
\* ends with RetryError on the last attempt; it never ends with another
\* exception.
C12_RetryableStatusAlwaysRetried ==
  (policy.max_retries >= 0 /\ LastReturnedRetryableStatus)
  => \/ pc = "sleeping" /\ attempt < policy.max_retries
     \/ /\ pc = "attempting"
        /\ Len(sleeps) = Len(history)
     \/ /\ pc = "done"
        /\ attempt = policy.max_retries
        /\ outcome.kind = "raise"
        /\ outcome.exc.cls = "RetryError"

\* the first invocation failed in a retryable way: it raised a configured
\* exception, or it returned a Response with a retryable status
FirstFailedRetryable ==
  /\ history # <<>>
  /\ \/ RaisedRetryable(1)
     \/ /\ ~OpOutcome(1).raised
        /\ OpOutcome(1).ret.kind = "response"
        /\ OpOutcome(1).ret.status \in {408, 429, 500, 502, 503, 504}

\* C13: with max_retries = 0 the operation is invoked at most once, the call
\* ends with that invocation, no sleep is performed, and a retryable failure
\* of that invocation ends the call with RetryError wrapping it.
C13_ZeroRetriesOneAttempt ==
  policy.max_retries = 0
  => /\ calls <= 1
     /\ sleeps = <<>>
     /\ pc # "sleeping"
     /\ attempt = 0
     /\ (calls = 1 => pc = "done")
     /\ FirstFailedRetryable
        => /\ outcome.kind = "raise"
           /\ outcome.exc.cls = "RetryError"
           /\ outcome.last.at = 1

\* C14: an adapter call whose request failed with a transport exception on
\* each of the 4 attempts raises an APIError to its caller.
C14_TransportFailureRaisesAPIError ==
  (/\ pc = "done"
   /\ func \in AdapterOps
   /\ Len(history) = 4
   /\ \A i \in 1..Len(history) :
        history[i].kind = "raise" /\ history[i].cls \in {"ConnectionError", "Timeout"})
  => /\ outcome.kind = "raise"
     /\ IsSubclass(outcome.exc.cls, "APIError")

\* C15: for a response whose body parses, _handle_response returns the
\* payload if and only if the status is in 200..299, and for every other
\* status it raises the class of the table: 401/403 AuthenticationError,
\* 404 NotFoundError, 429 RateLimitError, anything else APIError.
C15_ClassifierTable ==
  (/\ func \in AdapterOps
   /\ history # <<>>
   /\ history[Len(history)].kind = "response"
   /\ ParseJson(history[Len(history)].text).valid)
  => LET s == history[Len(history)].status
         h == HandleResponse(Response(s, history[Len(history)].text), calls)
     IN  /\ ~h.raised <=> (200 <= s /\ s <= 299)
         /\ h.raised
            => h.exc.cls = IF s \in {401, 403} THEN "AuthenticationError"
                           ELSE IF s = 404 THEN "NotFoundError"
                           ELSE IF s = 429 THEN "RateLimitError"
                           ELSE "APIError"

\* C16: a classified error raised to the caller of an adapter method carries
\* the status of the response that caused it as status_code and the body
\* text of that response as response_body.
C16_ErrorCarriesStatusAndBody ==
  (/\ pc = "done"
   /\ func \in AdapterOps
   /\ outcome.kind = "raise"
   /\ outcome.exc.cls \in ClassifiedErrors)
  => /\ history[Len(history)].kind = "response"
     /\ outcome.exc.status = history[Len(history)].status
     /\ outcome.exc.body = history[Len(history)].text
     /\ outcome.exc.at = Len(history)

\* a 500 answer whose body is a JSON document ends the call with a plain
\* APIError carrying both
C16_Witness ==
  /\ pc = "done"
  /\ func = "get_locations"
  /\ Len(history) = 2
  /\ history[2] = DoesRespond(500, BodyNoResults)
  /\ outcome.exc.cls = "APIError"
  /\ outcome.exc.status = 500
  /\ outcome.exc.body = BodyNoResults

\* a rule of validate_measurement is violated by the measurement vm
RuleViolated ==
  \/ vm.city = NoneText \/ vm.city = <<>>
  \/ vm.location = NoneText \/ vm.location = <<>>
  \/ vm.parameter = NoneStr
  \/ vm.value.isNone
  \/ ~vm.value.isNone /\ vm.value.num < 0
  \/ vm.unit = NoneStr \/ vm.unit = ""
  \/ vm.timestamp.kind \notin {"aware", "naive"}
  \/ vm.timestamp.kind \in {"aware", "naive"} /\ vm.timestamp.t > vnow

\* C20: validate_measurement raises ValidationError if and only if a rule is
\* violated, and returns without raising otherwise; no other exception type
\* leaves it.
C20_ValidationErrorIffRuleViolated ==
  vnow # 0
  => /\ vres.cls = "ValidationError" <=> RuleViolated
     /\ ~RuleViolated => vres = Passed
     /\ vres.cls \in {"None", "ValidationError"}

\* no exception of get_measurements_for_place has ended the run
NoFetchFailure == uresult.cls \notin FetchErrors

\* C17: execute calls get_measurements_for_place once per place, in list
\* order, and then storage.save exactly once, after the last fetch; when
\* every place yields no measurements save is called once with an empty list
\* and execute returns.  Only a failure of get_measurements_for_place ends
\* a run earlier, and the calls made before it are a prefix of these.
C17_FetchEachPlaceThenSaveOnce ==
  /\ Len(fetchCalls) <= Len(places)
  /\ fetchCalls = SubSeq(places, 1, Len(fetchCalls))
  /\ Len(saveCalls) <= 1
  /\ saveCalls # <<>> => fetchCalls = places
  /\ (upc = "done" /\ NoFetchFailure)
     => /\ fetchCalls = places
        /\ Len(saveCalls) = 1
        /\ uresult.kind = "return"
  /\ (upc \in {"saving", "loading", "done"} /\ fetchCalls = places /\ fetched = <<>>)
     => /\ uresult.cls \in {"None"} \cup FetchErrors
        /\ saveCalls # <<>> => saveCalls = << <<>> >>
  /\ (upc = "fetching" /\ NoFetchFailure) => Len(fetchCalls) < Len(places)

\* the fetched measurements that validate_measurement accepts, in order
RECURSIVE Accepted(_)
Accepted(pairs) ==
  IF pairs = <<>> THEN <<>>
  ELSE (IF validate_measurement(pairs[1].m, pairs[1].now).cls = "None"
        THEN <<pairs[1].m>> ELSE <<>>) \o Accepted(Tail(pairs))

\* C18: the list passed to storage.save is the subsequence of the fetched
\* measurements that pass validate_measurement, in fetch order; a
\* measurement that fails validation is skipped: its validation does not
\* end the run, which only an exception of the repository can do, and it
\* removes no accepted measurement fetched before or after it.
C18_SavedAreTheValidOnes ==
  /\ uresult.kind = "raise" => uresult.cls \in FetchErrors
  /\ uresult.cls \notin FetchErrors => all_measurements = Accepted(fetched)
  /\ saveCalls # <<>> => saveCalls[1] = Accepted(fetched)

\* the location matches the place gplace: its locality in lower case is an
\* alias in lower case, or its name in lower case contains one
IsMatching(loc) ==
  \E k \in 1..Len(gplace.city_aliases) :
    LET alias == LowerText(gplace.city_aliases[k])
    IN  \/ loc.locality # NoneText /\ LowerText(loc.locality) = alias
        \/ loc.name # NoneText /\ Contains(alias, LowerText(loc.name))

\* the ids of the matching locations among the first n returned, in order
RECURSIVE MatchingIds(_)
MatchingIds(n) ==
  IF n = 0 THEN <<>>
  ELSE MatchingIds(n - 1)
         \o (IF IsMatching(glocations[n]) THEN <<glocations[n].id>> ELSE <<>>)

\* C19: get_measurements_for_place calls get_locations once; it queries only
\* locations that match the aliases of the place, in the order of the API
\* and at most locations_limit of them; when no call fails it has queried
\* min(locations_limit, number of matching locations) of them.
C19_QueriesMatchingUpToLimit ==
  gpc # "idle"
  => LET matching == MatchingIds(Len(glocations)) IN
     /\ Len(locationsCalls) = 1
     /\ locationsCalls[1] = gplace.country_iso
     /\ Len(queried) <= glimit
     /\ Len(queried) <= Len(matching)
     /\ queried = SubSeq(matching, 1, Len(queried))
     /\ gresult = "return"
        => Len(queried) = IF glimit <= Len(matching) THEN glimit ELSE Len(matching)

\* three stations returned, the Krakow station first; two match Warsaw, the
\* limit is 1, and only the first matching one was queried
C19_Witness ==
  /\ gpc = "done"
  /\ gresult = "return"
  /\ glimit = 1
  /\ glocations = <<KrakowStation, NamedStation, WarsawStation>>
  /\ Len(gplace.city_aliases) = 2
  /\ queried = <<3>>

\* the i-th invocation returned a Response with a retryable status
ReturnedRetryableStatus(i) ==
  /\ ~OpOutcome(i).raised
  /\ OpOutcome(i).ret.kind = "response"
  /\ OpOutcome(i).ret.status \in {408, 429, 500, 502, 503, 504}

\* C21: under the default exception tuple and max_retries >= 0, a call whose
\* operation returned a Response with a retryable status at every invocation
\* ends after exactly max_retries+1 invocations with RetryError whose
\* last_exception is an HTTPError carrying the response of the last
\* invocation; a Response with any other status is returned as it is after
\* one invocation.
C21_RetryableStatusExhaustsBudget ==
  (policy.exceptions = DEFAULT_RETRY_EXCEPTIONS /\ policy.max_retries >= 0)
  => /\ (pc = "done" /\ calls >= 1 /\ \A i \in 1..calls : ReturnedRetryableStatus(i))
        => /\ calls = policy.max_retries + 1
           /\ outcome.kind = "raise"
           /\ outcome.exc.cls = "RetryError"
           /\ outcome.last.cls = "HTTPError"
           /\ outcome.last.at = calls
           /\ outcome.last.status = history[calls].status
           /\ outcome.last.body = history[calls].text
     /\ (/\ calls >= 1
         /\ ~OpOutcome(1).raised
         /\ OpOutcome(1).ret.kind = "response"
         /\ ~ReturnedRetryableStatus(1))
        => /\ pc = "done"
           /\ calls = 1
           /\ outcome.kind = "return"
           /\ outcome.ret = Response(history[1].status, history[1].text)

\* max_retries=2 and the function answers 503 three times: RetryError wraps
\* the HTTPError of the third response
C21_Witness ==
  /\ pc = "done"
  /\ func = "func"
  /\ policy.exceptions = DEFAULT_RETRY_EXCEPTIONS
  /\ policy.max_retries = 2
  /\ history = <<DoesRespond(503, BodyRateLimit), DoesRespond(503, BodyRateLimit),
                 DoesRespond(503, BodyRateLimit)>>
  /\ outcome.exc.cls = "RetryError"
  /\ outcome.last = Exc("HTTPError", 3, 503, BodyRateLimit)

\* C22: within a call the attempt counter starts at 0, changes only when a
\* sleep ends and the loop retries, then by exactly +1, and is never above
\* max_retries once the operation has been invoked; after the call has
\* returned or raised, the only step is the entry of a new call, which starts
\* with no invocation and no sleep: the ended call invokes and sleeps no more.
C22_AttemptCounterAndTerminalStates ==
  [][/\ pc \in {"idle", "done"}
        => /\ pc' = "attempting"
           /\ attempt' = 0
           /\ calls' = 0
           /\ sleeps' = <<>>
           /\ trace' = <<>>
     /\ pc \in {"attempting", "sleeping"}
        => /\ attempt' # attempt => pc = "sleeping" /\ pc' = "attempting"
           /\ pc = "sleeping" => attempt' = attempt + 1
           /\ calls' >= 1 => attempt' <= policy.max_retries
           /\ func' = func /\ policy' = policy
    ]_vars

\* a call with max_retries=3 that retried twice and then returned
C22_Witness ==
  /\ pc = "done"
  /\ policy.max_retries = 3
  /\ attempt = 2
  /\ calls = 3
  /\ outcome.kind = "return"

\* C23: for every max_retries, negative ones included, a call returns only
\* what its last invocation of the operation returned; a call that ends
\* without any invocation (the loop body never ran) raises RetryError with
\* last_exception None, and this is what every call with a negative
\* max_retries does.
C23_NoUndefinedReturn ==
  /\ outcome.kind = "return"
     => /\ calls >= 1
        /\ ~OpOutcome(calls).raised
        /\ outcome.ret = OpOutcome(calls).ret
  /\ (pc = "done" /\ calls = 0)
     => /\ policy.max_retries < 0
        /\ outcome.kind = "raise"
        /\ outcome.exc.cls = "RetryError"
        /\ outcome.last = NoExc
  /\ (pc = "done" /\ policy.max_retries < 0) => calls = 0

\* max_retries=-1: the call ended with RetryError and never invoked
C23_Witness ==
  /\ pc = "done"
  /\ policy.max_retries = -1
  /\ calls = 0
  /\ outcome.exc.cls = "RetryError"
  /\ outcome.last = NoExc

IsInvokeOrSleep(e) == e.kind \in {"invoke", "sleep"}

\* the invocations and sleeps of the call, in the order they happened
Steps == SelectSeq(trace, IsInvokeOrSleep)

\* the k-th invocation failed in a way `except exceptions` catches
CaughtFailure(k) ==
  \/ RaisedRetryable(k)
  \/ ReturnedRetryableStatus(k) /\ IsInstance("HTTPError", policy.exceptions)

\* C24: the invocations and sleeps of a call alternate, starting with an
\* invocation: attempt k is the (2k+1)-th step and the sleep after it the
\* next one; a sleep follows only an invocation that failed retryably
\* before the final attempt, so none comes first, after a success, after
\* a non-retryable exception or after the failure of the final attempt.
C24_InvocationsAndSleepsAlternate ==
  /\ \A i \in 1..Len(Steps) :
       /\ Steps[i].kind = IF i % 2 = 1 THEN "invoke" ELSE "sleep"
       /\ Steps[i].kind = "invoke" => Steps[i].n = (i - 1) \div 2
       /\ Steps[i].kind = "sleep"
          => /\ CaughtFailure(i \div 2)
             /\ (i \div 2) - 1 < policy.max_retries
             /\ Steps[i].delay = sleeps[i \div 2]
  /\ pc = "done" /\ Steps # <<>> => Steps[Len(Steps)].kind = "invoke"
  /\ pc = "attempting" => Len(Steps) = 2 * calls
  /\ pc = "sleeping" => Len(Steps) = 2 * calls
  /\ pc = "done" /\ calls >= 1 => Len(Steps) = 2 * calls - 1
  /\ Len(sleeps) = Len(Steps) \div 2

\* two retryable failures, each followed by one sleep, then a success
C24_Witness ==
  /\ pc = "done"
  /\ outcome.kind = "return"
  /\ Len(Steps) = 5
  /\ Steps[2].kind = "sleep" /\ Steps[4].kind = "sleep"
  /\ Steps[5] = InvokeEvent(2)

IsLogRecord(e) == e.kind \in {"warning", "error"}

\* the records the call logged, in order
Log == SelectSeq(trace, IsLogRecord)

\* C28: for max_retries >= 0, a call that has made r retries has logged r
\* warnings, the k-th naming attempt k and the delay of the k-th sleep and
\* standing right before that sleep; a call that exhausted its budget logged
\* max_retries warnings and then one error, its last record; no other call
\* logs an error, and a call that succeeded at once logged nothing.
C28_RetriesAndFailureAreLogged ==
  policy.max_retries >= 0
  => /\ \A k \in 1..Len(sleeps) :
          /\ k <= Len(Log)
          /\ Log[k].kind = "warning"
          /\ Log[k].n = k
          /\ Log[k].delay = sleeps[k]
     /\ \A i \in 1..Len(trace) :
          trace[i].kind = "warning"
          => /\ i > 1 /\ trace[i - 1].kind = "invoke"
             /\ i < Len(trace) /\ trace[i + 1].kind = "sleep"
             /\ trace[i + 1].delay = trace[i].delay
     /\ IF outcome.kind = "raise" /\ outcome.exc.cls = "RetryError"
        THEN /\ Len(sleeps) = policy.max_retries
             /\ Len(Log) = policy.max_retries + 1
             /\ Log[Len(Log)].kind = "error"
             /\ trace[Len(trace)].kind = "error"
        ELSE Len(Log) = Len(sleeps)
     /\ (outcome.kind = "return" /\ calls = 1) => Log = <<>>

\* max_retries=2 under the default delays, three failures: warnings for
\* attempts 1 and 2 with delays 1 and 2, then the error record
C28_Witness ==
  /\ pc = "done"
  /\ policy.max_retries = 2
  /\ policy.base_delay = 1
  /\ outcome.exc.cls = "RetryError"
  /\ Log = <<Event("warning", 1, 1), Event("warning", 2, 2), Event("error", 2, 0)>>

\* C25: when every invocation and every sleep terminates, a call with
\* max_retries >= 0 that has been entered reaches a terminal outcome; it
\* makes at most max_retries+1 invocations and max_retries sleeps, and it
\* raises RetryError only once max_retries+1 invocations were made.
C25_CallTerminatesWithinBudget ==
  /\ [](policy.max_retries >= 0
        => /\ calls <= policy.max_retries + 1
           /\ Len(sleeps) <= policy.max_retries
           /\ (outcome.kind = "raise" /\ outcome.exc.cls = "RetryError")
              => calls = policy.max_retries + 1)
  /\ (pc \in {"attempting", "sleeping"} /\ policy.max_retries >= 0) ~> pc = "done"

\* a call with max_retries=3 that used its whole budget: four invocations,
\* three sleeps, RetryError
C25_Witness ==
  /\ pc = "done"
  /\ policy.max_retries = 3
  /\ calls = 4
  /\ Len(sleeps) = 3
  /\ outcome.exc.cls = "RetryError"

\* the text starts with the five characters gs://
IsGsPath(path) ==
  /\ Len(path) >= 5
  /\ path[1] = "g" /\ path[2] = "s" /\ path[3] = ":" /\ path[4] = "/" /\ path[5] = "/"

\* C29: load_from_gcs is called at most once per run of execute, only after
\* storage.save was called and returned, and with the very path save
\* returned; a run that returns has loaded if and only if a loader was given
\* and that path starts with gs://, so never for an empty or a local path.
C29_LoadOnlyGsPathOnce ==
  /\ Len(loadCalls) <= 1
  /\ loadCalls # <<>>
     => /\ Len(saveCalls) = 1
        /\ loadCalls[1] = SavePath(storage, saveCalls[1])
        /\ loader
        /\ IsGsPath(loadCalls[1])
  /\ (upc = "done" /\ uresult.kind = "return")
     => /\ uresult.path = SavePath(storage, saveCalls[1])
        /\ loadCalls # <<>> <=> (loader /\ IsGsPath(uresult.path))
        /\ uresult.path \in {EmptyPath, LocalPath} => loadCalls = <<>>

\* a GCS storage and a loader: the saved URI was loaded once
C29_Witness ==
  /\ upc = "done"
  /\ storage = "gcs"
  /\ loader
  /\ saveCalls = << <<StationA>> >>
  /\ loadCalls = <<GcsUri>>
  /\ uresult = Returns(GcsUri)

\* C30: when get_measurements_for_place raises, execute ends at once with
\* that exception: storage.save and load_from_gcs have not been and are never
\* called, no later place is fetched, and what earlier places returned is
\* not saved.
C30_FetchFailureAbortsRun ==
  /\ [](fetchRaised # "None"
        => /\ upc = "done"
           /\ uresult = Raises(fetchRaised)
           /\ saveCalls = <<>>
           /\ loadCalls = <<>>)
  /\ [][fetchRaised # "None" => UNCHANGED ucVars]_vars

\* the second of two places raises RetryError after the first returned a
\* valid measurement: nothing was saved
C30_Witness ==
  /\ upc = "done"
  /\ fetchCalls = <<"PL", "GB">>
  /\ all_measurements = <<StationA>>
  /\ fetchRaised = "RetryError"
  /\ uresult = Raises("RetryError")
  /\ saveCalls = <<>>

\* C27: whatever the calls before it did, a call starts with attempt 0, no
\* last exception and no sleep; its attempt counter counts its own retries
\* only, its first delay is base_delay, its last exception is one of its own
\* invocations, and it raises RetryError only after max_retries+1
\* invocations of its own.
C27_NoRetryStateSurvivesACall ==
  /\ (pc = "attempting" /\ calls = 0)
     => attempt = 0 /\ last_exception = NoExc /\ sleeps = <<>>
  /\ pc \in {"attempting", "sleeping", "done"}
     => /\ attempt = IF pc = "attempting" THEN calls ELSE calls - 1
        /\ Len(sleeps) = IF pc = "done" THEN calls - 1 ELSE calls
        /\ sleeps # <<>> => sleeps[1] = policy.base_delay
        /\ last_exception # NoExc => last_exception.at \in 1..calls
        /\ (outcome.kind = "raise" /\ outcome.exc.cls = "RetryError")
           => /\ calls = policy.max_retries + 1
              /\ outcome.last.at = calls

\* after a call that returned at once and a call that exhausted its budget,
\* a third call has its whole budget: four invocations, delays 1, 2, 4
C27_Witness ==
  /\ earlier = <<[ending |-> "return", retries |-> 0],
                 [ending |-> "RetryError", retries |-> 3]>>
  /\ pc = "done"
  /\ func = "get_latest_for_location"
  /\ calls = 4
  /\ sleeps = <<1, 2, 4>>
  /\ outcome.exc.cls = "RetryError"

\* the k-th invocation of call c raised an exception the decorator retries
OwnFailure(c, k) ==
  /\ made[c][k].x.kind = "raise"
  /\ \E base \in shared.exceptions : IsSubclass(made[c][k].x.cls, base)

\* the exception that the k-th invocation of call c raised
OwnException(c, k) == Exc(made[c][k].x.cls, made[c][k].id, NoStatus, NoBody)

\* C26: when calls through one decorated function interleave, each call
\* counts its own attempts, sleeps the delay sequence of its own retries,
\* keeps as last exception the one its own latest failed invocation raised,
\* and gives up only after max_retries+1 invocations of its own, wrapping
\* the exception of its own last invocation.
C26_CallsDoNotShareRetryState ==
  \A c \in Callers :
    LET fr == frames[c] IN
    /\ fr.calls = Len(made[c])
    /\ fr.calls <= shared.max_retries + 1
    /\ fr.pc = "idle" => fr.calls = 0 /\ fr.sleeps = <<>>
    /\ fr.pc # "idle"
       => fr.attempt = IF fr.pc = "sleeping" THEN Len(fr.sleeps) - 1 ELSE Len(fr.sleeps)
    /\ Len(fr.sleeps) = IF fr.pc \in {"idle", "done"} /\ fr.calls >= 1
                        THEN fr.calls - 1 ELSE fr.calls
    /\ \A k \in 1..Len(fr.sleeps) :
         /\ OwnFailure(c, k)
         /\ fr.sleeps[k] = Min(shared.base_delay * Pow(shared.exponential_base, k - 1),
                               shared.max_delay)
    /\ fr.last_exception # NoExc
       => \E k \in 1..Len(made[c]) :
            /\ fr.last_exception = OwnException(c, k)
            /\ \A j \in (k + 1)..Len(made[c]) : ~OwnFailure(c, j)
    /\ (fr.kind = "raise" /\ fr.exc.cls = "RetryError")
       => /\ Len(made[c]) = shared.max_retries + 1
          /\ \A k \in 1..Len(made[c]) : OwnFailure(c, k)
          /\ fr.last = OwnException(c, Len(made[c]))
    /\ fr.kind = "return" => fr.ret = Value(made[c][Len(made[c])].x.value)

\* both calls are waiting to retry: a has failed twice (the first and third
\* invocation of the function), b once in between, with another exception
C26_Witness ==
  /\ frames["a"].pc = "sleeping" /\ frames["b"].pc = "sleeping"
  /\ made["a"] = <<[x |-> DoesRaise("ConnectionError"), id |-> 1],
                   [x |-> DoesRaise("ConnectionError"), id |-> 3]>>
  /\ made["b"] = <<[x |-> DoesRaise("Timeout"), id |-> 2]>>
  /\ frames["a"].attempt = 1 /\ frames["a"].sleeps = <<1, 2>>
  /\ frames["b"].attempt = 0 /\ frames["b"].sleeps = <<1>>
  /\ frames["b"].last_exception = Exc("Timeout", 2, NoStatus, NoBody)

====
